---------------------------- MODULE Spec2Model ----------------------------
(***************************************************************************)
(* Model of pydvid's VoxelsNddataCodec                                     *)
(* (src/pydvid/voxels/voxels_nddata_codec.py): the codec that moves a      *)
(* numpy array to and from a byte stream in chunks, and the EncodedStream  *)
(* view it hands to upload code.                                           *)
(*                                                                         *)
(* An array is modelled the way numpy holds it: a shape, a dtype, a memory *)
(* order and a flat memory of bytes; a logical element is found through    *)
(* the strides.  A buffer (numpy.getbuffer) is the flat memory.            *)
(***************************************************************************)
EXTENDS Integers, Sequences, FiniteSets, TLC

\* ------------------------------------------------------------------ bounds
MaxExtent == 2      \* every axis has 1..MaxExtent entries
MaxChunk == 3       \* chunk sizes 1..MaxChunk are tried next to the real one
MaxNbytes == 3      \* read/peek are called with nbytes in -1..MaxNbytes
MaxSeekOver == 2    \* seek is called with pos in -MaxSeekOver..len+MaxSeekOver

\* -------------------------------------------------------- program constants
STREAM_CHUNK_SIZE == 1000

DTypes == {"uint8", "uint16"}
Orders == {"F", "C"}
Seeds == {1}

\* dtype.type().nbytes
NBytes(dtype) ==
  CASE dtype = "uint8" -> 1
    [] dtype = "uint16" -> 2
    [] dtype = "uint32" -> 4

Min(a, b) == IF a < b THEN a ELSE b

RECURSIVE Prod(_)
\* numpy.prod(shape)
Prod(shape) ==
  IF shape = <<>> THEN 1 ELSE Head(shape) * Prod(Tail(shape))

RECURSIVE Flatten(_)
\* the bytes of a sequence of chunks, in the order the chunks were moved
Flatten(chunks) ==
  IF chunks = <<>> THEN <<>> ELSE Head(chunks) \o Flatten(Tail(chunks))

\* buf[start:stop] of a Python 2 buffer / str: negative indices count from the
\* end, then both ends are clamped into the object and an inverted range is empty
Slice(buf, start, stop) ==
  LET size == Len(buf)
      i1 == IF start < 0 THEN start + size ELSE start
      i2 == IF stop < 0 THEN stop + size ELSE stop
      left == IF i1 < 0 THEN 0 ELSE i1
      r0 == IF i2 < 0 THEN 0 ELSE i2
      r1 == IF r0 > size THEN size ELSE r0
      right == IF r1 < left THEN left ELSE r1
  IN  IF right > left THEN SubSeq(buf, left + 1, right) ELSE <<>>

\* ------------------------------------------------------------ numpy arrays
Shapes ==
  {<<a>> : a \in 0..MaxExtent} \cup
  {<<a, b>> : a \in 1..MaxExtent, b \in 1..MaxExtent}

\* strides (in bytes) of a contiguous array of the given order
StridesOf(shape, order, w) ==
  [k \in 1..Len(shape) |->
     IF order = "F"
     THEN w * Prod(SubSeq(shape, 1, k - 1))
     ELSE w * Prod(SubSeq(shape, k + 1, Len(shape)))]

\* the index tuples of an array, 0-based as in numpy
Indices(shape) ==
  {idx \in [1..Len(shape) -> 0..MaxExtent + 1] :
     \A k \in 1..Len(shape) : idx[k] < shape[k]}

RECURSIVE Dot(_, _)
Dot(idx, strides) ==
  IF Len(idx) = 0 THEN 0
  ELSE idx[1] * strides[1] + Dot(Tail(idx), Tail(strides))

\* byte offset of element idx in the array's memory
OffsetOf(vol, idx) ==
  Dot(idx, StridesOf(vol.shape, vol.order, NBytes(vol.dtype)))

\* the raw bytes of the element array[idx]
ElemAt(vol, idx) ==
  SubSeq(vol.mem, OffsetOf(vol, idx) + 1, OffsetOf(vol, idx) + NBytes(vol.dtype))

\* array.flags['F_CONTIGUOUS']
FContiguous(vol) ==
  StridesOf(vol.shape, vol.order, NBytes(vol.dtype))
    = StridesOf(vol.shape, "F", NBytes(vol.dtype))

\* the index tuple of the e-th element counted with the first axis fastest
UnravelF(e, shape) ==
  [k \in 1..Len(shape) |-> (e \div Prod(SubSeq(shape, 1, k - 1))) % shape[k]]

\* byte k (0-based) of a test memory: every byte of a small array is distinct
ByteOf(seed, k) == (seed * 67 + k * (2 * seed + 1) + 1) % 256

MakeVolume(shape, dtype, order, seed) ==
  [shape |-> shape, dtype |-> dtype, order |-> order,
   mem |-> [k \in 1..(Prod(shape) * NBytes(dtype)) |-> ByteOf(seed, k - 1)]]

Volumes ==
  {MakeVolume(s, d, o, z) : s \in Shapes, d \in DTypes, o \in Orders, z \in Seeds}

NoVolume == [shape |-> <<>>, dtype |-> "none", order |-> "F", mem |-> <<>>]


\* ------------------------------------------------------------ the codec
VARIABLES
  codecDtype,   \* self._voxels_metadata.dtype
  chunk,        \* the chunk size in force (STREAM_CHUNK_SIZE in the source)
  array,        \* the ndarray the client holds
  stream,       \* the byte stream handed to encode/decode
  es,           \* the EncodedStream handed out by create_encoded_stream_from_ndarray
  ret           \* the outcome of the last call

vars == <<codecDtype, chunk, array, stream, es, ret>>

ChunkSizes == (1..MaxChunk) \cup {STREAM_CHUNK_SIZE}

\* number of bytes of the array's memory: len(numpy.getbuffer(array))
BufLen(vol) == Prod(vol.shape) * NBytes(vol.dtype)

\* self._voxels_metadata.shape: the whole remote volume, larger than any region
\* that is transferred; decode_to_ndarray ignores it
MetadataShape == <<MaxExtent + 1, MaxExtent + 1>>

\* calculate_buffer_len taking the size from the metadata's shape
calculate_buffer_len_meta(shape) == Prod(MetadataShape) * NBytes(codecDtype)

\* calculate_buffer_len(shape)
calculate_buffer_len(shape) == Prod(shape) * NBytes(codecDtype)

\* array_copy = numpy.empty_like(array, order='F'); array_copy[:] = array[:]
CopyToF(vol) ==
  [shape |-> vol.shape, dtype |-> vol.dtype, order |-> "F",
   mem |-> [j \in 1..BufLen(vol) |->
              ElemAt(vol, UnravelF((j - 1) \div NBytes(vol.dtype), vol.shape))
                [((j - 1) % NBytes(vol.dtype)) + 1]]]

\* _get_buffer without the Fortran-order copy
_get_buffer_nocopy(vol) ==
  IF vol.dtype # codecDtype
  THEN [status |-> "AssertionError", buf |-> <<>>, copied |-> FALSE]
  ELSE [status |-> "ok", buf |-> vol.mem, copied |-> FALSE]

\* _get_buffer without the dtype assertion
_get_buffer_nocheck(vol) ==
  IF ~FContiguous(vol)
  THEN [status |-> "ok", buf |-> CopyToF(vol).mem, copied |-> TRUE]
  ELSE [status |-> "ok", buf |-> vol.mem, copied |-> FALSE]

\* _get_buffer handing out a buffer over a copy in every case
_get_buffer_alwayscopy(vol) ==
  IF vol.dtype # codecDtype
  THEN [status |-> "AssertionError", buf |-> <<>>, copied |-> FALSE]
  ELSE [status |-> "ok", buf |-> CopyToF(vol).mem, copied |-> TRUE]

\* _get_buffer(array): the dtype assertion, then the buffer of the array itself
\* or of its Fortran-order copy
_get_buffer(vol) ==
  IF vol.dtype # codecDtype
  THEN [status |-> "AssertionError", buf |-> <<>>, copied |-> FALSE]
  ELSE IF ~FContiguous(vol)
       THEN [status |-> "ok", buf |-> CopyToF(vol).mem, copied |-> TRUE]
       ELSE [status |-> "ok", buf |-> vol.mem, copied |-> FALSE]

RECURSIVE SendLoopFullOnly(_, _, _)
\* the loop of _send_from_buffer stopping before a last, shorter chunk
SendLoopFullOnly(buf, remaining_bytes, c) ==
  IF remaining_bytes >= c
  THEN LET next_chunk_bytes == Min(remaining_bytes, c)
           chunk_start == Len(buf) - remaining_bytes
           chunk_stop == Len(buf) - (remaining_bytes - next_chunk_bytes)
       IN  <<Slice(buf, chunk_start, chunk_stop)>>
             \o SendLoopFullOnly(buf, remaining_bytes - next_chunk_bytes, c)
  ELSE <<>>

RECURSIVE SendLoopGap(_, _, _)
\* the loop of _send_from_buffer with a chunk that stops one byte early
SendLoopGap(buf, remaining_bytes, c) ==
  IF remaining_bytes > 0
  THEN LET next_chunk_bytes == Min(remaining_bytes, c)
           chunk_start == Len(buf) - remaining_bytes
           chunk_stop == Len(buf) - (remaining_bytes - next_chunk_bytes) - 1
       IN  <<Slice(buf, chunk_start, chunk_stop)>>
             \o SendLoopGap(buf, remaining_bytes - next_chunk_bytes, c)
  ELSE <<>>

RECURSIVE SendLoop(_, _, _)
\* the while loop of _send_from_buffer: the chunks passed to stream.write, in order
SendLoop(buf, remaining_bytes, c) ==
  IF remaining_bytes > 0
  THEN LET next_chunk_bytes == Min(remaining_bytes, c)
           chunk_start == Len(buf) - remaining_bytes
           chunk_stop == Len(buf) - (remaining_bytes - next_chunk_bytes)
       IN  <<Slice(buf, chunk_start, chunk_stop)>>
             \o SendLoop(buf, remaining_bytes - next_chunk_bytes, c)
  ELSE <<>>

\* _send_from_buffer(buf, stream)
_send_from_buffer(buf, c) == SendLoop(buf, Len(buf), c)

\* stream.read(n) of a file-like stream: up to n of the bytes not yet read
StreamRead(data, rpos, n) == SubSeq(data, rpos + 1, rpos + Min(n, Len(data) - rpos))

\* the most a stream gives to a read of n bytes: caps holds the limits of its
\* coming answers, and past them it answers in full
CapOf(caps, n) == IF caps = <<>> THEN n ELSE Min(n, Head(caps))

Rest(caps) == IF caps = <<>> THEN <<>> ELSE Tail(caps)

\* buf[start:stop] = rhs that takes a shorter rhs and fills what it covers
BufAssignLenient(buf, start, stop, rhs) ==
  [status |-> "ok",
   buf |-> [j \in 1..Len(buf) |->
              IF j > start /\ j <= start + Len(rhs) THEN rhs[j - start] ELSE buf[j]]]

\* buf[start:stop] = rhs on a read-write buffer: the lengths must agree
BufAssign(buf, start, stop, rhs) ==
  IF Len(rhs) # stop - start
  THEN [status |-> "TypeError", buf |-> buf]
  ELSE [status |-> "ok",
        buf |-> [j \in 1..Len(buf) |->
                   IF j > start /\ j <= stop THEN rhs[j - start] ELSE buf[j]]]

RECURSIVE ReadLoopFront(_, _, _, _, _, _, _, _)
\* the loop of _read_to_buffer storing every chunk at the front of the buffer
ReadLoopFront(buf, remaining_bytes, data, rpos, c, caps, reqs, log) ==
  IF remaining_bytes > 0
  THEN LET next_chunk_bytes == Min(remaining_bytes, c)
           chunk_start == 0
           chunk_stop == next_chunk_bytes
           got == StreamRead(data, rpos, CapOf(caps, next_chunk_bytes))
           asg == BufAssign(buf, chunk_start, chunk_stop, got)
       IN  IF asg.status # "ok"
           THEN [status |-> asg.status, buf |-> asg.buf, rpos |-> rpos + Len(got),
                 reqs |-> Append(reqs, next_chunk_bytes), log |-> Append(log, got)]
           ELSE ReadLoopFront(asg.buf, remaining_bytes - next_chunk_bytes, data,
                              rpos + Len(got), c, Rest(caps),
                              Append(reqs, next_chunk_bytes), Append(log, got))
  ELSE [status |-> "ok", buf |-> buf, rpos |-> rpos, reqs |-> reqs, log |-> log]

RECURSIVE ReadLoopFixedReq(_, _, _, _, _, _, _, _)
\* the loop of _read_to_buffer asking for a whole chunk on every call
ReadLoopFixedReq(buf, remaining_bytes, data, rpos, c, caps, reqs, log) ==
  IF remaining_bytes > 0
  THEN LET next_chunk_bytes == Min(remaining_bytes, c)
           chunk_start == Len(buf) - remaining_bytes
           chunk_stop == Len(buf) - (remaining_bytes - next_chunk_bytes)
           got == StreamRead(data, rpos, CapOf(caps, c))
           asg == BufAssign(buf, chunk_start, chunk_stop, got)
       IN  IF asg.status # "ok"
           THEN [status |-> asg.status, buf |-> asg.buf, rpos |-> rpos + Len(got),
                 reqs |-> Append(reqs, c), log |-> Append(log, got)]
           ELSE ReadLoopFixedReq(asg.buf, remaining_bytes - next_chunk_bytes, data,
                                 rpos + Len(got), c, Rest(caps),
                                 Append(reqs, c), Append(log, got))
  ELSE [status |-> "ok", buf |-> buf, rpos |-> rpos, reqs |-> reqs, log |-> log]

RECURSIVE ReadLoopRetry(_, _, _, _, _, _, _, _)
\* the loop of _read_to_buffer storing whatever a read returned and asking again
\* for the rest
ReadLoopRetry(buf, remaining_bytes, data, rpos, c, caps, reqs, log) ==
  IF remaining_bytes > 0
  THEN LET next_chunk_bytes == Min(remaining_bytes, c)
           chunk_start == Len(buf) - remaining_bytes
           got == StreamRead(data, rpos, CapOf(caps, next_chunk_bytes))
           asg == BufAssign(buf, chunk_start, chunk_start + Len(got), got)
       IN  IF got = <<>>
           THEN [status |-> "TypeError", buf |-> buf, rpos |-> rpos,
                 reqs |-> Append(reqs, next_chunk_bytes), log |-> Append(log, got)]
           ELSE ReadLoopRetry(asg.buf, remaining_bytes - Len(got), data,
                              rpos + Len(got), c, Rest(caps),
                              Append(reqs, next_chunk_bytes), Append(log, got))
  ELSE [status |-> "ok", buf |-> buf, rpos |-> rpos, reqs |-> reqs, log |-> log]

RECURSIVE ReadLoop(_, _, _, _, _, _, _, _)
\* the while loop of _read_to_buffer, with the stream's position and the
\* requests and answers of stream.read threaded through; the stream answers
\* its successive reads with at most caps[1], caps[2], ... bytes
ReadLoop(buf, remaining_bytes, data, rpos, c, caps, reqs, log) ==
  IF remaining_bytes > 0
  THEN LET next_chunk_bytes == Min(remaining_bytes, c)
           chunk_start == Len(buf) - remaining_bytes
           chunk_stop == Len(buf) - (remaining_bytes - next_chunk_bytes)
           got == StreamRead(data, rpos, CapOf(caps, next_chunk_bytes))
           asg == BufAssign(buf, chunk_start, chunk_stop, got)
       IN  IF asg.status # "ok"
           THEN [status |-> asg.status, buf |-> asg.buf, rpos |-> rpos + Len(got),
                 reqs |-> Append(reqs, next_chunk_bytes), log |-> Append(log, got)]
           ELSE ReadLoop(asg.buf, remaining_bytes - next_chunk_bytes, data,
                         rpos + Len(got), c, Rest(caps),
                         Append(reqs, next_chunk_bytes), Append(log, got))
  ELSE [status |-> "ok", buf |-> buf, rpos |-> rpos, reqs |-> reqs, log |-> log]

\* a byte of memory numpy.ndarray(...) allocated and nobody wrote yet
Uninit == -1

\* numpy.ndarray(full_roi_shape, dtype=..., order='C'): the order argument forgotten
NewArrayC(shape, dtype, mem) ==
  [shape |-> shape, dtype |-> dtype, order |-> "C", mem |-> mem]

\* numpy.ndarray(full_roi_shape, dtype=self._voxels_metadata.dtype, order='F'),
\* holding mem once the buffer over it has been filled
NewArray(shape, dtype, mem) ==
  [shape |-> shape, dtype |-> dtype, order |-> "F", mem |-> mem]

\* _read_to_buffer(buf, stream) on the buffer of a freshly allocated array
_read_to_buffer(len, data, rpos, c, caps) ==
  ReadLoop([j \in 1..len |-> Uninit], len, data, rpos, c, caps, <<>>, <<>>)

NoEs ==
  [created |-> FALSE, closed |-> FALSE, buffer |-> <<>>, position |-> 0,
   alias |-> FALSE]

NoRet ==
  [op |-> "none", status |-> "ok", arg |-> <<>>, data |-> <<>>, value |-> NoVolume,
   log |-> <<>>, reqs |-> <<>>, pos0 |-> 0, num |-> 0, flag |-> FALSE]

Init ==
  /\ codecDtype \in DTypes
  /\ chunk \in ChunkSizes
  /\ array \in Volumes
  /\ stream = [data |-> <<>>, rpos |-> 0, written |-> <<>>]
  /\ es = NoEs
  /\ ret = NoRet

\* encode_from_ndarray(stream, array), called on a stream nothing has been
\* written to yet
Encode ==
  LET g == _get_buffer(array)
      writes == _send_from_buffer(g.buf, chunk)
  IN  /\ stream.written = <<>>
      /\ IF g.status # "ok"
         THEN /\ ret' = [NoRet EXCEPT !.op = "encode", !.status = g.status]
              /\ UNCHANGED stream
         ELSE /\ stream' = [stream EXCEPT !.data = @ \o Flatten(writes),
                                          !.written = @ \o Flatten(writes)]
              /\ ret' = [NoRet EXCEPT !.op = "encode", !.log = writes]
      /\ UNCHANGED <<codecDtype, chunk, array, es>>

\* create_encoded_stream_from_ndarray(array)
Create ==
  LET g == _get_buffer(array)
  IN  /\ IF g.status # "ok"
         THEN /\ ret' = [NoRet EXCEPT !.op = "create", !.status = g.status]
              /\ UNCHANGED es
         ELSE /\ es' = [created |-> TRUE, closed |-> FALSE, buffer |-> g.buf,
                        position |-> 0, alias |-> ~g.copied]
              /\ ret' = [NoRet EXCEPT !.op = "create"]
      /\ UNCHANGED <<codecDtype, chunk, array, stream>>

\* decode_to_ndarray(stream, full_roi_shape), called on a response stream
\* nothing has been read from yet and whose answers are limited by caps
DecodeFrom(full_roi_shape, caps) ==
  LET r == _read_to_buffer(calculate_buffer_len(full_roi_shape),
                           stream.data, stream.rpos, chunk, caps)
  IN  /\ stream.rpos = 0
      /\ stream' = [stream EXCEPT !.rpos = r.rpos]
      /\ ret' = [NoRet EXCEPT
                   !.op = "decode", !.status = r.status, !.arg = full_roi_shape,
                   !.value = IF r.status = "ok"
                             THEN NewArray(full_roi_shape, codecDtype, r.buf)
                             ELSE NoVolume,
                   !.reqs = r.reqs, !.log = r.log, !.pos0 = stream.rpos]
      /\ UNCHANGED <<codecDtype, chunk, array, es>>

\* decode_to_ndarray on a file-like stream: a read is short only at its end
Decode(full_roi_shape) == DecodeFrom(full_roi_shape, <<>>)

\* decode_to_ndarray on a socket-like stream that holds bytes: a read may be
\* short before the end
DecodeShort(full_roi_shape, caps) ==
  /\ stream.data # <<>>
  /\ DecodeFrom(full_roi_shape, caps)

\* the transport loses the last byte of a stream nobody has read from yet
Truncate ==
  /\ stream.rpos = 0
  /\ Len(stream.data) > 0
  /\ stream' = [stream EXCEPT !.data = SubSeq(@, 1, Len(@) - 1)]
  /\ UNCHANGED <<codecDtype, chunk, array, es, ret>>

Next ==
  \/ Encode
  \/ Create
  \/ \E s \in Shapes : Decode(s)
  \/ Truncate

Spec == Init /\ [][Next]_vars

\* the stream answers its first read, or its second one, with at most b bytes
ReadCaps ==
  {<<b>> : b \in 1..MaxChunk} \cup {<<STREAM_CHUNK_SIZE, b>> : b \in 1..MaxChunk}

NextShortRead ==
  \/ Encode
  \/ \E s \in Shapes : Decode(s)
  \/ \E s \in Shapes, caps \in ReadCaps : DecodeShort(s, caps)

SpecShortRead == Init /\ [][NextShortRead]_vars


\* ------------------------------------------------------- the EncodedStream
\* _read that moves the cursor also when peeking
_read_nopeek(e, isNone, nbytes, peeking) ==
  IF e.closed
  THEN [status |-> "AssertionError", data |-> <<>>, position |-> e.position]
  ELSE LET remaining_bytes == Len(e.buffer) - e.position
           nb == Min(remaining_bytes, nbytes)
           start == e.position
           stop == e.position + nb
       IN  IF isNone
           THEN [status |-> "TypeError", data |-> <<>>, position |-> e.position]
           ELSE [status |-> "ok", data |-> Slice(e.buffer, start, stop),
                 position |-> e.position + nb]

\* _read without the assertion on a closed stream: len(None) raises TypeError
_read_noassert(e, isNone, nbytes, peeking) ==
  IF e.closed
  THEN [status |-> "TypeError", data |-> <<>>, position |-> e.position]
  ELSE LET remaining_bytes == Len(e.buffer) - e.position
           nb == Min(remaining_bytes, nbytes)
           start == e.position
           stop == e.position + nb
       IN  IF isNone
           THEN [status |-> "TypeError", data |-> <<>>, position |-> e.position]
           ELSE [status |-> "ok", data |-> Slice(e.buffer, start, stop),
                 position |-> IF peeking THEN e.position ELSE e.position + nb]

\* _read with a slice that stops one byte early
_read_shortslice(e, isNone, nbytes, peeking) ==
  IF e.closed
  THEN [status |-> "AssertionError", data |-> <<>>, position |-> e.position]
  ELSE LET remaining_bytes == Len(e.buffer) - e.position
           nb == Min(remaining_bytes, nbytes)
           start == e.position
           stop == e.position + nb - 1
       IN  IF isNone
           THEN [status |-> "TypeError", data |-> <<>>, position |-> e.position]
           ELSE [status |-> "ok", data |-> Slice(e.buffer, start, stop),
                 position |-> IF peeking THEN e.position ELSE e.position + nb]

\* EncodedStream._read(nbytes, peeking); nbytes = None is passed as isNone
_read(e, isNone, nbytes, peeking) ==
  IF e.closed
  THEN [status |-> "AssertionError", data |-> <<>>, position |-> e.position]
  ELSE LET remaining_bytes == Len(e.buffer) - e.position
           nb == Min(remaining_bytes, nbytes)
           start == e.position
           stop == e.position + nb
       IN  IF isNone
           THEN [status |-> "TypeError", data |-> <<>>, position |-> e.position]
           ELSE [status |-> "ok", data |-> Slice(e.buffer, start, stop),
                 position |-> IF peeking THEN e.position ELSE e.position + nb]

NbytesArgs == (-1)..MaxNbytes

SeekArgs == (-MaxSeekOver)..(BufLen(array) + MaxSeekOver)

\* EncodedStream.seek(pos)
Seek(pos) ==
  /\ es.created
  /\ es' = [es EXCEPT !.position = pos]
  /\ ret' = [NoRet EXCEPT !.op = "seek", !.arg = <<pos>>, !.pos0 = es.position]
  /\ UNCHANGED <<codecDtype, chunk, array, stream>>

\* EncodedStream.tell()
Tell ==
  /\ es.created
  /\ ret' = [NoRet EXCEPT !.op = "tell", !.num = es.position, !.pos0 = es.position]
  /\ UNCHANGED <<codecDtype, chunk, array, stream, es>>

\* EncodedStream.close()
Close ==
  /\ es.created
  /\ es' = [es EXCEPT !.closed = TRUE, !.buffer = <<>>, !.alias = FALSE]
  /\ ret' = [NoRet EXCEPT !.op = "close", !.pos0 = es.position]
  /\ UNCHANGED <<codecDtype, chunk, array, stream>>

\* EncodedStream.closed()
Closed ==
  /\ es.created
  /\ ret' = [NoRet EXCEPT !.op = "closed", !.flag = es.closed, !.pos0 = es.position]
  /\ UNCHANGED <<codecDtype, chunk, array, stream, es>>

\* EncodedStream.getvalue()
GetValue ==
  LET pos == es.position
      r == _read(es, TRUE, 0, FALSE)
  IN  /\ es.created
      /\ es' = [es EXCEPT !.position = IF r.status = "ok" THEN pos ELSE r.position]
      /\ ret' = [NoRet EXCEPT !.op = "getvalue", !.status = r.status,
                              !.data = r.data, !.pos0 = es.position]
      /\ UNCHANGED <<codecDtype, chunk, array, stream>>

\* EncodedStream.peek(nbytes)
Peek(nbytes) ==
  LET r == _read(es, FALSE, nbytes, TRUE)
  IN  /\ es.created
      /\ es' = [es EXCEPT !.position = r.position]
      /\ ret' = [NoRet EXCEPT !.op = "peek", !.status = r.status, !.arg = <<nbytes>>,
                              !.data = r.data, !.pos0 = es.position]
      /\ UNCHANGED <<codecDtype, chunk, array, stream>>

\* EncodedStream.read(nbytes); the cursor is kept above -MaxSeekOver
Read(nbytes) ==
  LET r == _read(es, FALSE, nbytes, FALSE)
  IN  /\ es.created
      /\ r.position >= -MaxSeekOver
      /\ es' = [es EXCEPT !.position = r.position]
      /\ ret' = [NoRet EXCEPT !.op = "read", !.status = r.status, !.arg = <<nbytes>>,
                              !.data = r.data, !.pos0 = es.position]
      /\ UNCHANGED <<codecDtype, chunk, array, stream>>

\* EncodedStream.read() with nbytes left out
ReadDefault ==
  LET r == _read(es, TRUE, 0, FALSE)
  IN  /\ es.created
      /\ es' = [es EXCEPT !.position = r.position]
      /\ ret' = [NoRet EXCEPT !.op = "readall", !.status = r.status,
                              !.data = r.data, !.pos0 = es.position]
      /\ UNCHANGED <<codecDtype, chunk, array, stream>>

InitView == Init /\ chunk = STREAM_CHUNK_SIZE

NextView ==
  \/ Encode
  \/ Create
  \/ \E pos \in SeekArgs : Seek(pos)
  \/ Tell
  \/ Close
  \/ Closed
  \/ GetValue
  \/ \E n \in NbytesArgs : Peek(n)
  \/ \E n \in NbytesArgs : Read(n)
  \/ ReadDefault

SpecView == InitView /\ [][NextView]_vars

\* the value the client stores into its array
PokeValue == 0

\* the client stores PokeValue into byte j of its array's memory, once; a buffer
\* that numpy.getbuffer made over that memory shows the new byte
Poke(j) ==
  /\ \A i \in 1..Len(array.mem) : array.mem[i] # PokeValue
  /\ array' = [array EXCEPT !.mem[j] = PokeValue]
  /\ es' = IF es.alias THEN [es EXCEPT !.buffer[j] = PokeValue] ELSE es
  /\ ret' = [NoRet EXCEPT !.op = "poke", !.arg = <<j>>]
  /\ UNCHANGED <<codecDtype, chunk, stream>>

NextAlias ==
  \/ Create
  \/ \E j \in 1..BufLen(array) : Poke(j)
  \/ \E n \in NbytesArgs : Peek(n)
  \/ Close

SpecAlias == InitView /\ [][NextAlias]_vars


\* =================================================================== claims

\* offset of element idx in the wire order (first axis fastest)
WireOffset(vol, idx) == Dot(idx, StridesOf(vol.shape, "F", NBytes(vol.dtype)))

\* the bytes buf[p .. p+k), with -2 standing where the buffer has no byte
BytesAt(buf, p, k) ==
  [i \in 1..k |-> IF p + i \in 1..Len(buf) THEN buf[p + i] ELSE -2]

\* the stream holds exactly what encode wrote and decode started at its head
ReplaysEncoding ==
  /\ stream.written # <<>>
  /\ stream.data = stream.written
  /\ ret.pos0 = 0

\* C1: decoding, with the shape of V, a stream that replays exactly what
\* encoding a canonical-layout V of the codec's dtype wrote gives back an array
\* of V's shape whose every element equals V's.
C1_RoundTrip ==
  (/\ ret.op = "decode"
   /\ ret.arg = array.shape
   /\ ReplaysEncoding
   /\ FContiguous(array)
   /\ array.dtype = codecDtype)
  => /\ ret.status = "ok"
     /\ ret.value.shape = array.shape
     /\ ret.value.dtype = array.dtype
     /\ \A idx \in Indices(array.shape) : ElemAt(ret.value, idx) = ElemAt(array, idx)

C1_Witness ==
  /\ ret.op = "decode"
  /\ ret.status = "ok"
  /\ ret.arg = array.shape
  /\ ReplaysEncoding
  /\ FContiguous(array)
  /\ array.shape = <<2, 2>>
  /\ array.dtype = "uint16"
  /\ Len(ret.log) > 1

\* C2: for an array that is not F-contiguous, encode writes the logical elements
\* with the first axis varying fastest: element idx sits at its wire offset.
C2_LayoutIndependent ==
  (ret.op = "encode" /\ ret.status = "ok" /\ ~FContiguous(array))
  => LET out == Flatten(ret.log)
     IN  /\ Len(out) = BufLen(array)
         /\ \A idx \in Indices(array.shape) :
              SubSeq(out, WireOffset(array, idx) + 1,
                     WireOffset(array, idx) + NBytes(array.dtype))
                = ElemAt(array, idx)

C2_Witness ==
  /\ ret.op = "encode"
  /\ ret.status = "ok"
  /\ ~FContiguous(array)
  /\ array.shape = <<2, 2>>
  /\ array.dtype = "uint16"
  /\ Flatten(ret.log) # array.mem

\* C3: the number of bytes encode writes equals calculate_buffer_len(shape).
C3_ByteLength ==
  (ret.op = "encode" /\ ret.status = "ok")
  => Len(Flatten(ret.log)) = calculate_buffer_len(array.shape)

C3_Witness ==
  /\ ret.op = "encode"
  /\ ret.status = "ok"
  /\ Len(ret.log) > 1
  /\ Len(ret.log[Len(ret.log)]) < chunk

\* C4: when the stream holds fewer bytes than calculate_buffer_len(shape),
\* decode ends in an error and returns no array, whatever the shortfall.
C4_Truncated ==
  (ret.op = "decode"
   /\ Len(stream.data) - ret.pos0 < calculate_buffer_len(ret.arg))
  => /\ ret.status # "ok"
     /\ ret.value = NoVolume

C4_Witness ==
  /\ ret.op = "decode"
  /\ ret.status = "TypeError"
  /\ Len(stream.data) = calculate_buffer_len(ret.arg) - 1
  /\ Len(ret.log) > 1

\* C5: with an array of another dtype than the codec's, encode and
\* create_encoded_stream fail on the assertion, nothing is written to the
\* stream and no view is handed out.
C5_TypeMismatch ==
  (ret.op \in {"encode", "create"} /\ array.dtype # codecDtype)
  => /\ ret.status = "AssertionError"
     /\ ret.log = <<>>
     /\ stream.written = <<>>
     /\ stream.data = <<>>
     /\ es = NoEs

C5_Witness ==
  /\ ret.op = "encode"
  /\ ret.status = "AssertionError"
  /\ array.dtype # codecDtype
  /\ BufLen(array) > 1

\* C6: the cursor of a view stays within 0..len(buffer) whatever calls are made.
C6_CursorBounds ==
  es.created => (0 <= es.position /\ es.position <= BufLen(array))

\* C7: read(n) on an open view returns buffer[p .. p+k) with p the cursor
\* before the call and k = min(n, remaining), leaves the cursor at p + k, moves
\* it by the number of bytes returned and is short only at the end of the buffer.
C7_ReadReturns ==
  (ret.op = "read" /\ ret.status = "ok")
  => LET p == ret.pos0
         n == ret.arg[1]
         k == Min(n, Len(es.buffer) - p)
     IN  /\ ret.data = BytesAt(es.buffer, p, k)
         /\ es.position = p + k
         /\ es.position - p = Len(ret.data)
         /\ (Len(ret.data) < n => Len(es.buffer) - p < n)

\* C8: read() without nbytes on an open view succeeds, returns everything from
\* the cursor to the end and leaves the cursor at the end.
C8_ReadAll ==
  (ret.op = "readall" /\ ~es.closed)
  => /\ ret.status = "ok"
     /\ ret.data = BytesAt(es.buffer, ret.pos0, Len(es.buffer) - ret.pos0)
     /\ es.position = Len(es.buffer)

\* C9: getvalue() on an open view returns the bytes from the cursor to the end
\* and leaves the cursor where it was.
C9_GetValue ==
  (ret.op = "getvalue" /\ ~es.closed)
  => /\ ret.status = "ok"
     /\ ret.data = BytesAt(es.buffer, ret.pos0, Len(es.buffer) - ret.pos0)
     /\ es.position = ret.pos0

\* C10: peek(n) never moves the cursor, and a read(n) made right after a
\* peek(n) ends as that peek did, with the same bytes.
C10_PeekThenRead ==
  [][/\ (ret'.op = "peek" => es'.position = es.position)
     /\ (ret.op = "peek" /\ ret'.op = "read" /\ ret'.arg = ret.arg)
          => (ret'.status = ret.status /\ ret'.data = ret.data)]_vars

C10_Witness ==
  /\ ret.op = "peek"
  /\ ret.status = "ok"
  /\ Len(ret.data) = 2
  /\ ret.arg = <<2>>
  /\ ret.pos0 = 1
  /\ es.position = 1


\* C11: on a closed view read, peek and getvalue fail on the assertion
\* (UseAfterClose); closed() answers what the view is, a new view is open, and
\* a view becomes closed only by a call of close().
C11_CloseSemantics ==
  /\ [](/\ (es.closed /\ ret.op \in {"read", "readall", "peek", "getvalue"})
             => ret.status = "AssertionError"
        /\ (ret.op = "closed" => ret.flag = es.closed)
        /\ ((ret.op = "create" /\ ret.status = "ok") => ~es.closed)
        /\ (~es.created => ~es.closed))
  /\ [][(~es.closed /\ es'.closed) => ret'.op = "close"]_vars

C11_Witness ==
  /\ es.closed
  /\ ret.op = "getvalue"
  /\ ret.status = "AssertionError"
  /\ ret.pos0 > 0

\* C19: on a closed view every call, seek and tell included, is an error.
C19_AllFailAfterClose ==
  (es.closed /\ ret.op \in {"seek", "tell", "read", "readall", "peek", "getvalue"})
  => ret.status = "AssertionError"


\* number of chunks of at most c bytes that cover len bytes
CeilDiv(len, c) == (len + c - 1) \div c

\* the chunk sizes an invariance claim compares: below, at and above len
CompareChunks(len) == (1..(len + 1)) \cup {STREAM_CHUNK_SIZE}

\* C12: _send_from_buffer writes, as its k-th write, buffer[(k-1)*C .. min(k*C, L)):
\* in offset order, without gap or overlap, the writes together being the
\* buffer; a 10-byte buffer with C = 4 gives writes of 4, 4 and 2 bytes.
C12_DrainOrder ==
  (ret.op = "encode" /\ ret.status = "ok")
  => LET buf == _get_buffer(array).buf
         ten == _send_from_buffer([i \in 1..10 |-> i], 4)
     IN  /\ Len(ret.log) = CeilDiv(Len(buf), chunk)
         /\ \A k \in 1..Len(ret.log) :
              ret.log[k] = BytesAt(buf, (k - 1) * chunk,
                                   Min(k * chunk, Len(buf)) - (k - 1) * chunk)
         /\ Flatten(ret.log) = buf
         /\ [k \in 1..Len(ten) |-> Len(ten[k])] = <<4, 4, 2>>

C12_Witness ==
  /\ ret.op = "encode"
  /\ ret.status = "ok"
  /\ [k \in 1..Len(ret.log) |-> Len(ret.log[k])] = <<3, 3, 2>>

\* C13: whatever the chunk size (1, between 1 and L, L, above L), the bytes
\* _send_from_buffer delivers and the buffer _read_to_buffer fills from a
\* stream that holds enough bytes are the same.
C13_ChunkInvariance ==
  /\ (ret.op = "encode" /\ ret.status = "ok")
       => \A c \in CompareChunks(BufLen(array)) :
            Flatten(_send_from_buffer(_get_buffer(array).buf, c)) = Flatten(ret.log)
  /\ (ret.op = "decode" /\ ret.status = "ok")
       => \A c \in CompareChunks(Len(ret.value.mem)) :
            LET r == _read_to_buffer(Len(ret.value.mem), stream.data, ret.pos0, c, <<>>)
            IN  r.status = "ok" /\ r.buf = ret.value.mem

C13_Witness ==
  /\ ret.op = "decode"
  /\ ret.status = "ok"
  /\ Len(ret.log) > 1
  /\ chunk > 1
  /\ Len(ret.value.mem) > chunk + 1


\* C14: when a stream.read answers with another number of bytes than asked
\* for, even though the stream holds the missing bytes, _read_to_buffer fails at
\* that call: it is the last call made and decode returns no array.
C14_ShortReadFails ==
  ret.op = "decode"
  => \A k \in 1..Len(ret.log) :
       Len(ret.log[k]) # ret.reqs[k]
       => /\ ret.status # "ok"
          /\ ret.value = NoVolume
          /\ k = Len(ret.log)

C14_Witness ==
  /\ ret.op = "decode"
  /\ ret.status = "TypeError"
  /\ Len(ret.log) = 2
  /\ Len(ret.log[2]) > 0
  /\ Len(ret.log[2]) < ret.reqs[2]
  /\ Len(stream.data) >= Prod(ret.arg) * NBytes(codecDtype)


\* C15: on a stream that answers every read in full, _read_to_buffer asks for
\* min(C, remaining) bytes per call, stores the k-th answer in
\* buffer[(k-1)*C .. min(k*C, L)) and ends with byte i of the buffer being the
\* i-th byte the stream delivered.
C15_FillOrder ==
  (ret.op = "decode" /\ ret.status = "ok")
  => LET mem == ret.value.mem
         len == Len(mem)
     IN  /\ len = Prod(ret.arg) * NBytes(codecDtype)
         /\ Len(ret.reqs) = CeilDiv(len, chunk)
         /\ Len(ret.log) = Len(ret.reqs)
         /\ \A k \in 1..Len(ret.reqs) :
              /\ ret.reqs[k] = Min(chunk, len - (k - 1) * chunk)
              /\ ret.log[k] = BytesAt(mem, (k - 1) * chunk,
                                      Min(k * chunk, len) - (k - 1) * chunk)
         /\ mem = Flatten(ret.log)
         /\ mem = BytesAt(stream.data, ret.pos0, len)

C15_Witness ==
  /\ ret.op = "decode"
  /\ ret.status = "ok"
  /\ ret.reqs = <<3, 3, 2>>

\* C16: decode reads exactly prod(shape) * itemsize bytes for the shape it is
\* given, whatever the metadata's own shape: never more, and on a stream that
\* holds at least that many it succeeds and leaves every further byte unread.
C16_ConsumesExactly ==
  ret.op = "decode"
  => LET need == Prod(ret.arg) * NBytes(codecDtype)
     IN  /\ stream.rpos - ret.pos0 <= need
         /\ Len(Flatten(ret.log)) = stream.rpos - ret.pos0
         /\ (Len(stream.data) - ret.pos0 >= need)
              => /\ ret.status = "ok"
                 /\ stream.rpos = ret.pos0 + need
                 /\ Len(ret.value.mem) = need

C16_Witness ==
  /\ ret.op = "decode"
  /\ ret.status = "ok"
  /\ ret.arg # array.shape
  /\ ret.arg # MetadataShape
  /\ stream.rpos > 1
  /\ Len(stream.data) > stream.rpos

\* C20: both loops end after exactly ceil(L / C) stream calls, each moving
\* between 1 and C bytes and all of them together L bytes; with L = 0 no call
\* is made.
C20_CallCount ==
  /\ (ret.op = "encode" /\ ret.status = "ok")
       => /\ Len(ret.log) = CeilDiv(BufLen(array), chunk)
          /\ \A k \in 1..Len(ret.log) :
               1 <= Len(ret.log[k]) /\ Len(ret.log[k]) <= chunk
          /\ Len(Flatten(ret.log)) = BufLen(array)
          /\ (BufLen(array) = 0 => ret.log = <<>>)
  /\ (ret.op = "decode" /\ ret.status = "ok")
       => LET need == Prod(ret.arg) * NBytes(codecDtype)
          IN  /\ Len(ret.reqs) = CeilDiv(need, chunk)
              /\ \A k \in 1..Len(ret.log) :
                   1 <= Len(ret.log[k]) /\ Len(ret.log[k]) <= chunk
              /\ Len(Flatten(ret.log)) = need
              /\ (need = 0 => ret.reqs = <<>>)

C20_Witness ==
  /\ ret.op = "decode"
  /\ ret.status = "ok"
  /\ ret.reqs = <<3, 1>>

\* C20 with L = 0: an empty array is encoded without any write
C20_WitnessEmpty ==
  /\ ret.op = "encode"
  /\ ret.status = "ok"
  /\ BufLen(array) = 0
  /\ ret.log = <<>>


RECURSIVE ReadUntilEmpty(_, _)
\* the bytes that successive read(n) calls on the view e return, up to the
\* first empty (or failed) one
ReadUntilEmpty(e, n) ==
  LET r == _read(e, FALSE, n, FALSE)
  IN  IF r.status # "ok" \/ r.data = <<>>
      THEN <<>>
      ELSE r.data \o ReadUntilEmpty([e EXCEPT !.position = r.position], n)

\* C17: create_encoded_stream_from_ndarray touches no I/O stream and returns an
\* open view with cursor 0; read from cursor 0 by read(n) calls until an empty
\* answer, at creation or after seek(0), the view gives the bytes encode writes
\* for the same array.
C17_ViewEqualsEncoding ==
  /\ []((es.created /\ ~es.closed /\ es.position = 0 /\ stream.written # <<>>)
          => \A n \in 1..MaxNbytes : ReadUntilEmpty(es, n) = stream.written)
  /\ [][ret'.op = "create"
          => /\ stream' = stream
             /\ (ret'.status = "ok"
                   => es'.created /\ ~es'.closed /\ es'.position = 0)]_vars

C17_Witness ==
  /\ es.created
  /\ ~es.closed
  /\ es.position = 0
  /\ ret.op = "seek"
  /\ ret.pos0 > 2
  /\ Len(stream.written) > MaxNbytes
  /\ ~FContiguous(array)


\* C18: _get_buffer never modifies its input array. For an array already in
\* Fortran order the buffer is the array's own memory, so a later change to an
\* element of the array shows through the view; otherwise the buffer belongs to
\* a fresh Fortran-order copy, and a later change to the array does not show.
C18_BufferAliasing ==
  /\ []((es.created /\ ~es.closed /\ FContiguous(array)) => es.buffer = array.mem)
  /\ [][ret'.op = "create"
          => /\ array' = array
             /\ (ret'.status = "ok"
                   => es'.buffer = IF FContiguous(array)
                                   THEN array.mem
                                   ELSE CopyToF(array).mem)]_vars
  /\ [][array' # array => ret'.op = "poke"]_vars
  /\ [][(ret'.op = "poke" /\ es.created /\ ~es.closed)
          => IF FContiguous(array)
             THEN es'.buffer = array'.mem /\ es'.buffer # es.buffer
             ELSE es'.buffer = es.buffer]_vars

C18_Witness ==
  /\ es.created
  /\ ~es.closed
  /\ FContiguous(array)
  /\ Len(array.shape) = 2
  /\ ret.op = "poke"
  /\ ret.arg = <<2>>
  /\ es.buffer[2] = PokeValue
  /\ array.mem[2] = PokeValue

C18_WitnessCopy ==
  /\ es.created
  /\ ~es.closed
  /\ ~FContiguous(array)
  /\ ret.op = "poke"
  /\ \E j \in 1..Len(array.mem) : array.mem[j] = PokeValue
  /\ \A i \in 1..Len(es.buffer) : es.buffer[i] # PokeValue

=============================================================================
